---- MODULE Spec2Model ----
(***************************************************************************)
(* Model of src/src/omni/src/types/identity.rs: the Identity value type,   *)
(* its 32-byte tagged layout, the compact byte codec, the checksummed text *)
(* codec, the tagged wire codec, equality, ordering and matches_key.       *)
(*                                                                         *)
(* Conventions.  A byte is a number in 0..255.  A byte array or Vec<u8> is *)
(* a sequence of bytes; Rust's bytes[i] is b[i + 1] here.  A u32 is kept   *)
(* as its four big-endian bytes, so that no value leaves the range of the  *)
(* model checker's integers and every mask and shift of the source is a    *)
(* statement about one byte.  A string is the sequence of the ASCII codes  *)
(* of its characters.  A Result is a record: Ok(v), Err(e, x) or Panic     *)
(* (the call unwinds instead of returning).                                *)
(***************************************************************************)
EXTENDS Integers, Sequences, FiniteSets

\* ------------------------------------------------------------ constants

MAX_IDENTITY_BYTE_LEN == 32

SHA_OUTPUT_SIZE == 28

\* The private CBOR tag the wire codec uses.
IDENTITY_TAG == 10000

\* Bounds of the model: the number of keys the environment holds, and the
\* largest number of leading tag markers of a wire item.
NumKeys == 2

MaxTags == 2

\* ------------------------------------------------------------- results

Ok(v) == [tag |-> "Ok", val |-> v, err |-> "", arg |-> 0]

Err(e, x) == [tag |-> "Err", val |-> <<>>, err |-> e, arg |-> x]

Panic == [tag |-> "Panic", val |-> <<>>, err |-> "", arg |-> 0]

\* OmniError::invalid_identity()
InvalidIdentity == Err("InvalidIdentity", 0)

\* OmniError::invalid_identity_kind(x.to_string())
InvalidIdentityKind(x) == Err("InvalidIdentityKind", x)

\* OmniError::invalid_identity_prefix(value[0..0].to_string())
InvalidIdentityPrefix == Err("InvalidIdentityPrefix", 0)

\* ---------------------------------------------------------- byte helpers

\* The slice b[lo..hi] of Rust (hi excluded), for 0 <= lo <= hi <= len.
Slice(b, lo, hi) == SubSeq(b, lo + 1, hi)

Zeros(n) == [i \in 1..n |-> 0]

RECURSIVE Xor(_, _)
\* Bitwise exclusive or of two naturals.
Xor(a, b) ==
  IF a = 0 THEN b
  ELSE IF b = 0 THEN a
  ELSE (((a % 2) + (b % 2)) % 2) + 2 * Xor(a \div 2, b \div 2)

\* ------------------------------------------------- InnerIdentity: layout

anonymous == Zeros(MAX_IDENTITY_BYTE_LEN)

\* bytes[0] = 1, bytes[1 + len] = hash[len], the rest zero.
public_key(h) ==
  [i \in 1..MAX_IDENTITY_BYTE_LEN |->
     IF i = 1 THEN 1
     ELSE IF i <= 1 + SHA_OUTPUT_SIZE THEN h[i - 1]
     ELSE 0]

\* Mutation of subresource: the tag byte is 0x80 whatever the id.
subresource_notag(h, sid) ==
  [i \in 1..MAX_IDENTITY_BYTE_LEN |->
     IF i = 1 THEN 128
     ELSE IF i = SHA_OUTPUT_SIZE + 2 THEN sid[2]
     ELSE IF i = SHA_OUTPUT_SIZE + 3 THEN sid[3]
     ELSE IF i = SHA_OUTPUT_SIZE + 4 THEN sid[4]
     ELSE public_key(h)[i]]

\* Mutation of subresource: the first byte of the id is added to 0x80 without
\* the mask 0x7F, wrapping as a u8.
subresource_nomask(h, sid) ==
  [i \in 1..MAX_IDENTITY_BYTE_LEN |->
     IF i = 1 THEN (128 + sid[1]) % 256
     ELSE IF i = SHA_OUTPUT_SIZE + 2 THEN sid[2]
     ELSE IF i = SHA_OUTPUT_SIZE + 3 THEN sid[3]
     ELSE IF i = SHA_OUTPUT_SIZE + 4 THEN sid[4]
     ELSE public_key(h)[i]]

\* id is a u32 as four big-endian bytes: (id & 0x7F000000) >> 24 is the low
\* seven bits of its first byte, and the three other masks are its other bytes.
subresource(h, sid) ==
  [i \in 1..MAX_IDENTITY_BYTE_LEN |->
     IF i = 1 THEN 128 + (sid[1] % 128)
     ELSE IF i = SHA_OUTPUT_SIZE + 2 THEN sid[2]
     ELSE IF i = SHA_OUTPUT_SIZE + 3 THEN sid[3]
     ELSE IF i = SHA_OUTPUT_SIZE + 4 THEN sid[4]
     ELSE public_key(h)[i]]

is_anonymous(x) == x[1] = 0

is_public_key(x) == x[1] = 1

is_subresource(x) == x[1] \in 128..255

\* Some(hash) is <<hash>>, None is <<>>.
hash(x) ==
  IF x[1] = 1 \/ x[1] \in 128..255
  THEN <<[i \in 1..SHA_OUTPUT_SIZE |-> x[1 + i]]>>
  ELSE <<>>

\* Some(u32) is <<four big-endian bytes>>, None is <<>>.  high = (x & 0x7F) << 24
\* and low < 2^24, so high + low has first byte x & 0x7F and never carries.
subresource_id(x) ==
  IF x[1] \in 128..255
  THEN << <<x[1] % 128, x[SHA_OUTPUT_SIZE + 2], x[SHA_OUTPUT_SIZE + 3],
            x[SHA_OUTPUT_SIZE + 4]>> >>
  ELSE <<>>

\* Mutation of from_bytes: the tag 0 is accepted at any length.
from_bytes_lax(bytes) ==
  IF Len(bytes) = 0 THEN InvalidIdentity
  ELSE IF bytes[1] = 0 THEN Ok(anonymous)
  ELSE IF bytes[1] = 1
       THEN IF Len(bytes) # 29 THEN InvalidIdentity
            ELSE Ok(public_key(Slice(bytes, 1, 29)))
  ELSE IF bytes[1] \in 128..255
       THEN IF Len(bytes) # 32 THEN InvalidIdentity
            ELSE Ok(subresource(Slice(bytes, 1, 29),
                                <<bytes[1]>> \o Slice(bytes, 29, 32)))
  ELSE InvalidIdentityKind(bytes[1])

from_bytes(bytes) ==
  IF Len(bytes) = 0 THEN InvalidIdentity
  ELSE IF bytes[1] = 0
       THEN IF Len(bytes) > 1 THEN InvalidIdentity ELSE Ok(anonymous)
  ELSE IF bytes[1] = 1
       THEN IF Len(bytes) # 29 THEN InvalidIdentity
            ELSE Ok(public_key(Slice(bytes, 1, 29)))
  ELSE IF bytes[1] \in 128..255
       THEN IF Len(bytes) # 32 THEN InvalidIdentity
            ELSE Ok(subresource(Slice(bytes, 1, 29),
                                <<bytes[1]>> \o Slice(bytes, 29, 32)))
  ELSE InvalidIdentityKind(bytes[1])

\* Mutation of to_vec: a public-key identity is not compacted.
to_vec_full(x) ==
  IF x[1] = 0 THEN Ok(<<0>>)
  ELSE IF x[1] = 1 \/ x[1] \in 128..255 THEN Ok(x)
  ELSE Panic

\* The last arm of the match is unreachable!(): a panic.
to_vec(x) ==
  IF x[1] = 0 THEN Ok(<<0>>)
  ELSE IF x[1] = 1 THEN Ok(<<1>> \o Slice(x, 1, SHA_OUTPUT_SIZE + 1))
  ELSE IF x[1] \in 128..255 THEN Ok(x)
  ELSE Panic

\* Mutation of eq: the tag bytes of two subresource identities are not compared.
eq_notag(x, y) ==
  IF x[1] = 0 /\ y[1] = 0 THEN TRUE
  ELSE IF x[1] = 1 /\ y[1] = 1
       THEN Slice(x, 1, SHA_OUTPUT_SIZE + 1) = Slice(y, 1, SHA_OUTPUT_SIZE + 1)
  ELSE IF x[1] \in 128..255 /\ y[1] \in 128..255
       THEN Slice(x, 1, MAX_IDENTITY_BYTE_LEN) = Slice(y, 1, MAX_IDENTITY_BYTE_LEN)
  ELSE FALSE

\* impl PartialEq for InnerIdentity
eq(x, y) ==
  IF x[1] = 0 /\ y[1] = 0 THEN TRUE
  ELSE IF x[1] = 1 /\ y[1] = 1
       THEN Slice(x, 1, SHA_OUTPUT_SIZE + 1) = Slice(y, 1, SHA_OUTPUT_SIZE + 1)
  ELSE IF x[1] \in 128..255 /\ y[1] \in 128..255 /\ x[1] = y[1]
       THEN Slice(x, 1, MAX_IDENTITY_BYTE_LEN) = Slice(y, 1, MAX_IDENTITY_BYTE_LEN)
  ELSE FALSE

\* #[derive(Ord, PartialOrd)] on InnerIdentity { bytes }: the lexicographic
\* ordering of the 32 bytes, decided by the first index where they differ.
cmp(x, y) ==
  IF \A i \in 1..MAX_IDENTITY_BYTE_LEN : x[i] = y[i] THEN "Equal"
  ELSE LET d == CHOOSE i \in 1..MAX_IDENTITY_BYTE_LEN :
                  /\ x[i] # y[i]
                  /\ \A j \in 1..(i - 1) : x[j] = y[j]
       IN IF x[d] < y[d] THEN "Less" ELSE "Greater"

\* ------------------------------------------------- text codec primitives

\* A character is its ASCII code: 'A' is 65, 'a' is 97, '2' is 50, 'o' is 111.

\* u8::to_ascii_lowercase: only 'A'..'Z' change.
LowerChar(c) == IF c \in 65..90 THEN c + 32 ELSE c

to_ascii_lowercase(s) == [i \in 1..Len(s) |-> LowerChar(s[i])]

\* u8::to_ascii_uppercase: only 'a'..'z' change.
UpperChar(c) == IF c \in 97..122 THEN c - 32 ELSE c

\* base32::Alphabet::RFC4648, "ABCDEFGHIJKLMNOPQRSTUVWXYZ234567", at index v.
AlphabetChar(v) == IF v < 26 THEN 65 + v ELSE 50 + (v - 26)

\* The value of a character in the inverse alphabet, after to_ascii_uppercase;
\* -1 when it has none.
CharValue(c) ==
  LET u == UpperChar(c)
  IN IF u \in 65..90 THEN u - 65
     ELSE IF u \in 50..55 THEN u - 24
     ELSE -1

Pow2(n) == IF n = 0 THEN 1 ELSE IF n = 1 THEN 2 ELSE IF n = 2 THEN 4
           ELSE IF n = 3 THEN 8 ELSE IF n = 4 THEN 16 ELSE IF n = 5 THEN 32
           ELSE IF n = 6 THEN 64 ELSE IF n = 7 THEN 128 ELSE IF n = 8 THEN 256
           ELSE IF n = 9 THEN 512 ELSE IF n = 10 THEN 1024 ELSE 2048

\* base32::encode(RFC4648 { padding: false }, data): character j holds bits
\* 5j .. 5j+4 of the data, zero bits past its end; (8 len + 4) / 5 characters.
base32_encode(data) ==
  [j \in 1..((Len(data) * 8 + 4) \div 5) |->
     LET bit == 5 * (j - 1)
         bi  == bit \div 8
         off == bit % 8
         w   == data[bi + 1] * 256
                + (IF bi + 2 <= Len(data) THEN data[bi + 2] ELSE 0)
     IN AlphabetChar((w \div Pow2(11 - off)) % 32)]

\* base32::decode(RFC4648 { padding: false }, data): None (<<>>) when a character
\* has no value, else Some (<<bytes>>) of the 5 len / 8 whole bytes; byte i holds
\* bits 8i .. 8i+7 of the character values.  Strings holding '=' are not modelled.
base32_decode(data) ==
  IF \E j \in 1..Len(data) : CharValue(data[j]) = -1 THEN <<>>
  ELSE << [i \in 1..((Len(data) * 5) \div 8) |->
            LET bit == 8 * (i - 1)
                ci  == bit \div 5
                off == bit % 5
                v(k) == IF ci + k <= Len(data) THEN CharValue(data[ci + k]) ELSE 0
                w   == v(1) * 1024 + v(2) * 32 + v(3)
            IN (w \div Pow2(7 - off)) % 256] >>

\* One step of the reflected CRC-16 shift register, polynomial 0xA001.
Crc16Shift(c) == IF c % 2 = 1 THEN Xor(c \div 2, 40961) ELSE c \div 2

\* Eight steps of it.
Crc16Shift8(c) ==
  Crc16Shift(Crc16Shift(Crc16Shift(Crc16Shift(
    Crc16Shift(Crc16Shift(Crc16Shift(Crc16Shift(c))))))))

\* The lookup table of the CRC, entry b + 1 for the byte b, as a sequence.
Crc16Table == SubSeq([i \in 1..256 |-> Crc16Shift8(i - 1)], 1, 256)

\* Exclusive or of two four-bit numbers, entry <<a + 1, b + 1>>, as a sequence.
XorNibble == SubSeq([i \in 1..16 |-> SubSeq([j \in 1..16 |-> Xor(i - 1, j - 1)], 1, 16)], 1, 16)

\* Exclusive or of two bytes.
XorByte(a, b) ==
  16 * XorNibble[(a \div 16) + 1][(b \div 16) + 1] + XorNibble[(a % 16) + 1][(b % 16) + 1]

\* The register after one more byte b: the table entry of its low byte xor b,
\* xor its high byte.
Crc16Byte(c, b) ==
  LET t == Crc16Table[XorByte(c % 256, b) + 1]
  IN 256 * (t \div 256) + XorByte(t % 256, c \div 256)

RECURSIVE Crc16From(_, _, _)
\* The register c after the bytes data[i..].  (The test on the new register only
\* makes the evaluation proceed byte by byte.)
Crc16From(c, data, i) ==
  IF i > Len(data) THEN c
  ELSE LET next == Crc16Byte(c, data[i])
       IN IF next < 0 THEN next ELSE Crc16From(next, data, i + 1)

\* crc_any::CRCu16::crc16() over data: CRC-16/ARC, initial value 0.
crc16(data) == Crc16From(0, data, 1)

\* u16::to_be_bytes
to_be_bytes(c) == <<c \div 256, c % 256>>

\* --------------------------------------------------- InnerIdentity: text

\* impl Display for InnerIdentity: "o", the lowercase base32 of the compact
\* bytes, and the first two characters of the lowercase base32 of their CRC.
to_string(x) ==
  LET v == to_vec(x)
  IN IF v.tag = "Panic" THEN Panic
     ELSE Ok(<<111>> \o to_ascii_lowercase(base32_encode(v.val))
             \o to_ascii_lowercase(SubSeq(base32_encode(to_be_bytes(crc16(v.val))), 1, 2)))

\* Mutation of from_str: three trailing characters are taken for the checksum.
from_str_strip3(value) ==
  IF ~(Len(value) >= 1 /\ value[1] = 111) THEN InvalidIdentityPrefix
  ELSE IF Slice(value, 1, Len(value)) = <<97, 97>> THEN Ok(anonymous)
  ELSE IF Len(value) < 4 THEN Panic
  ELSE LET data    == Slice(Slice(value, 0, Len(value) - 3), 1, Len(value) - 3)
           decoded == base32_decode(data)
       IN IF decoded = <<>> THEN Panic
          ELSE LET result == from_bytes(decoded[1])
                   text   == to_string(result.val)
               IN IF result.tag # "Ok" THEN result
                  ELSE IF text.tag = "Panic" THEN Panic
                  ELSE IF text.val # value THEN InvalidIdentity
                  ELSE result

\* InnerIdentity::from_str.  &value[..value.len() - 2][1..] panics when the
\* string has fewer than 3 bytes (the subtraction overflows or the slice starts
\* past its end), and .unwrap() panics when base32::decode returns None.
\* Strings are ASCII here; slicing inside a multi-byte character is not modelled.
from_str(value) ==
  IF ~(Len(value) >= 1 /\ value[1] = 111) THEN InvalidIdentityPrefix
  ELSE IF Slice(value, 1, Len(value)) = <<97, 97>> THEN Ok(anonymous)
  ELSE IF Len(value) < 3 THEN Panic
  ELSE LET data    == Slice(Slice(value, 0, Len(value) - 2), 1, Len(value) - 2)
           decoded == base32_decode(data)
       IN IF decoded = <<>> THEN Panic
          ELSE LET result == from_bytes(decoded[1])
                   text   == to_string(result.val)
               IN IF result.tag # "Ok" THEN result
                  ELSE IF text.tag = "Panic" THEN Panic
                  ELSE IF text.val # value THEN InvalidIdentity
                  ELSE result

\* ------------------------------------------------------------- Identity

\* The keys the environment holds; None is 0 and Some(k) is k.
Keys == 1..NumKeys

\* Sha3_224::digest(key.to_public_key().unwrap().to_bytes_stable().unwrap()) for
\* a well-formed key: 28 bytes fixed by the key.  Key 1 and key 2 have the
\* digests of the repository's tests (from_pem, textual_format_1); the digest of
\* any further key is a fixed byte pattern of its own.
Digest(k) ==
  IF k = 1
  THEN <<74, 16, 29, 82, 29, 129, 2, 17, 160, 198, 52, 107, 168, 155, 209, 204, 31,
         130, 28, 3, 185, 105, 255, 157, 92, 139, 47, 89>>
  ELSE IF k = 2
  THEN <<200, 174, 173, 3, 249, 21, 241, 40, 240, 250, 127, 246, 150, 198, 86, 234,
         169, 61, 184, 123, 217, 170, 115, 223, 105, 58, 203, 34>>
  ELSE [i \in 1..SHA_OUTPUT_SIZE |-> (k * 41 + i * 7) % 256]

Identity_public_key(k) == public_key(Digest(k))

Identity_subresource(k, subid) == subresource(Digest(k), subid)

\* Mutation of with_subresource_id: only a public-key identity gets the id.
with_subresource_id_keep(x, subid) ==
  IF is_public_key(x) THEN subresource(hash(x)[1], subid) ELSE x

with_subresource_id(x, subid) ==
  IF hash(x) # <<>> THEN subresource(hash(x)[1], subid) ELSE anonymous

\* self.0.bytes.iter().zip(key_hash.iter()).all(|(a, b)| a == b): the zip pairs
\* bytes[i] with key_hash[i] for i in 0..28, the tag byte included.
matches_key(x, key) ==
  IF is_anonymous(x) THEN key = 0
  ELSE IF is_public_key(x) \/ is_subresource(x)
       THEN IF key # 0
            THEN \A i \in 1..SHA_OUTPUT_SIZE : x[i] = Digest(key)[i]
            ELSE FALSE
  ELSE FALSE

\* ------------------------------------------------------------ wire codec

\* The items of a CBOR stream: a tag marker, a definite-length text string, a
\* definite-length byte string, or an item of another type.
TagItem(n) == [type |-> "Tag", num |-> n, bytes |-> <<>>, str |-> <<>>]

StringItem(s) == [type |-> "String", num |-> 0, bytes |-> <<>>, str |-> s]

BytesItem(b) == [type |-> "Bytes", num |-> 0, bytes |-> b, str |-> <<>>]

OtherItem == [type |-> "U8", num |-> 7, bytes |-> <<>>, str |-> <<>>]

\* impl Encode for Identity: tag 10000, then the compact bytes.
encode(x) ==
  IF to_vec(x).tag = "Panic" THEN Panic
  ELSE Ok(<<TagItem(IDENTITY_TAG), BytesItem(to_vec(x).val)>>)

\* The number of leading tag markers of d.
LeadingTags(d) ==
  IF \E i \in 1..Len(d) : d[i].type # "Tag"
  THEN (CHOOSE i \in 1..Len(d) :
          d[i].type # "Tag" /\ \A j \in 1..(i - 1) : d[j].type = "Tag") - 1
  ELSE Len(d)

\* .map_err(|_e| Message("Could not decode identity from bytes"))
map_err(r) ==
  IF r.tag = "Err" THEN Err("Could not decode identity from bytes", 0) ELSE r

\* Mutation of decode: only the last tag marker counts.
decode_lasttag(d) ==
  LET n         == LeadingTags(d)
      is_tagged == n >= 1 /\ d[n].num = IDENTITY_TAG
  IN IF n = Len(d) THEN Err("EndOfInput", 0)
     ELSE IF d[n + 1].type = "String" THEN map_err(from_str(d[n + 1].str))
     ELSE IF ~is_tagged THEN Err("identities need to be tagged", 0)
     ELSE IF d[n + 1].type # "Bytes" THEN Err("TypeMismatch", 0)
     ELSE map_err(from_bytes(d[n + 1].bytes))

\* impl Decode for Identity.  d.datatype()? fails at the end of the input and
\* d.bytes()? on an item that is no byte string.
decode(d) ==
  LET n         == LeadingTags(d)
      is_tagged == \E i \in 1..n : d[i].num = IDENTITY_TAG
  IN IF n = Len(d) THEN Err("EndOfInput", 0)
     ELSE IF d[n + 1].type = "String" THEN map_err(from_str(d[n + 1].str))
     ELSE IF ~is_tagged THEN Err("identities need to be tagged", 0)
     ELSE IF d[n + 1].type # "Bytes" THEN Err("TypeMismatch", 0)
     ELSE map_err(from_bytes(d[n + 1].bytes))

\* ---------------------------------------------------------------- inputs

\* Subresource ids (u32, big-endian bytes): 0, 1, 2, 2^24, 2^31 + 1, 2^32 - 1.
SubIds ==
  { <<0, 0, 0, 0>>, <<0, 0, 0, 1>>, <<0, 0, 0, 2>>, <<1, 0, 0, 0>>,
    <<128, 0, 0, 1>>, <<255, 255, 255, 255>> }

\* Byte strings a caller hands to from_bytes: every tag class at its own length
\* and at others, and the compact bytes and the full layout of the identity x.
BytesInputs(x) ==
  { <<>>, <<0>>, <<0, 0>>, Zeros(MAX_IDENTITY_BYTE_LEN),
    <<1>>, <<1>> \o Digest(1), <<1>> \o Digest(1) \o <<0, 0, 0>>,
    <<1>> \o SubSeq(Digest(1), 1, 27),
    <<128>>, <<128>> \o Digest(1), <<128>> \o Digest(1) \o <<0, 0, 1>>,
    <<128>> \o Digest(1) \o <<0, 0, 1, 0>>,
    <<129>> \o Digest(2) \o <<0, 0, 2>>,
    <<255>> \o Digest(1) \o <<255, 255, 255>>,
    <<2>>, <<64>>, <<127>>, <<2>> \o Digest(1), <<127>> \o Digest(1) \o <<0, 0, 0>>,
    x }
  \cup (IF to_vec(x).tag = "Ok" THEN {to_vec(x).val} ELSE {})

\* A string with its last character changed ('a' to 'b', any other to 'a').
BadChecksum(t) ==
  [i \in 1..Len(t) |-> IF i < Len(t) THEN t[i] ELSE IF t[i] = 97 THEN 98 ELSE 97]

\* A string with every character but the first in upper case.
UpperBody(t) == [i \in 1..Len(t) |-> IF i = 1 THEN t[i] ELSE UpperChar(t[i])]

\* Strings a caller hands to from_str: short ones, wrong prefixes, characters
\* outside the alphabet, and the text of the identity x, as it is and damaged.
StrInputs(x) ==
  { <<>>,                          \* ""
    <<111>>,                       \* "o"
    <<111, 98>>,                   \* "ob"
    <<111, 97>>,                   \* "oa"
    <<111, 97, 97>>,               \* "oaa"
    <<111, 97, 98>>,               \* "oab"
    <<111, 97, 97, 97, 97>>,       \* "oaaaa"
    <<111, 97, 97, 97, 98>>,       \* "oaaab"
    <<97>>,                        \* "a"
    <<97, 97, 97>>,                \* "aaa"
    <<109, 97, 97>>,               \* "maa"
    <<111, 49, 97, 98>>,           \* "o1ab"
    <<111, 97, 33, 97, 97>>,       \* "oa!aa"
    <<111, 65, 65, 65, 65>>,       \* "oAAAA"
    <<111, 98, 97, 97, 97>>,       \* "obaaa"
    <<111, 113, 97, 97, 97>> }     \* "oqaaa"
  \cup (LET r == to_string(x)
        IN IF r.tag = "Ok"
           THEN {r.val, BadChecksum(r.val), UpperBody(r.val),
                 SubSeq(r.val, 1, Len(r.val) - 1)}
           ELSE {})

\* The tag numbers of wire inputs: the identity tag and another one.
WireTags == {IDENTITY_TAG, 24}

RECURSIVE TagSeqs(_)
\* The sequences of at most n tag markers.
TagSeqs(n) ==
  IF n = 0 THEN {<<>>}
  ELSE TagSeqs(n - 1)
       \cup {<<TagItem(t)>> \o q : t \in WireTags,
                                   q \in {r \in TagSeqs(n - 1) : Len(r) = n - 1}}

\* What follows the tag markers of a wire input: nothing, an item that is no
\* string, a text string (the text of x, "oab", "o") or a byte string (the
\* compact bytes of x, the byte 2).
WirePayloads(x) ==
  { <<>>, <<OtherItem>>,
    <<StringItem(<<111, 97, 98>>)>>, <<StringItem(<<111>>)>>, <<BytesItem(<<2>>)>> }
  \cup (LET r == to_string(x) IN IF r.tag = "Ok" THEN {<<StringItem(r.val)>>} ELSE {})
  \cup (LET v == to_vec(x) IN IF v.tag = "Ok" THEN {<<BytesItem(v.val)>>} ELSE {})

WireInputs(x) == {t \o p : t \in TagSeqs(MaxTags), p \in WirePayloads(x)}

\* Identities a caller compares with: one of each construction.
Operands ==
  {anonymous}
  \cup {Identity_public_key(k) : k \in Keys}
  \cup {Identity_subresource(k, i) : k \in Keys, i \in SubIds}

\* ----------------------------------------------------------- the machine

VARIABLES
  id,      \* the Identity value the program holds
  before,  \* the value it held when the last call was made
  call,    \* the last call: its name and its arguments
  ret      \* what the last call returned

vars == <<id, before, call, ret>>

NoArgs ==
  [op |-> "", key |-> 0, sid |-> <<>>, bytes |-> <<>>, str |-> <<>>,
   rhs |-> <<>>, items |-> <<>>]

\* Identity::default() is Identity::anonymous().
Init ==
  /\ id = anonymous
  /\ before = anonymous
  /\ call = [NoArgs EXCEPT !.op = "default"]
  /\ ret = Ok(anonymous)

\* Every call records itself in call, what it returned in ret and the identity
\* it found in before.  A call that returns an Identity leaves it in id; one
\* that returns a Result leaves it there when it is Ok; one that reads the
\* identity leaves id as it is.

Anonymous ==
  /\ call' = [NoArgs EXCEPT !.op = "anonymous"]
  /\ ret' = Ok(anonymous)
  /\ before' = id
  /\ id' = anonymous

Default ==
  /\ call' = [NoArgs EXCEPT !.op = "default"]
  /\ ret' = Ok(anonymous)
  /\ before' = id
  /\ id' = anonymous

PublicKey ==
  \E k \in Keys :
    /\ call' = [NoArgs EXCEPT !.op = "public_key", !.key = k]
    /\ ret' = Ok(Identity_public_key(k))
    /\ before' = id
    /\ id' = Identity_public_key(k)

Subresource ==
  \E k \in Keys, i \in SubIds :
    /\ call' = [NoArgs EXCEPT !.op = "subresource", !.key = k, !.sid = i]
    /\ ret' = Ok(Identity_subresource(k, i))
    /\ before' = id
    /\ id' = Identity_subresource(k, i)

WithSubresourceId ==
  \E i \in SubIds :
    /\ call' = [NoArgs EXCEPT !.op = "with_subresource_id", !.sid = i]
    /\ ret' = Ok(with_subresource_id(id, i))
    /\ before' = id
    /\ id' = with_subresource_id(id, i)

FromBytes ==
  \E b \in BytesInputs(id) :
    LET r == from_bytes(b)
    IN /\ call' = [NoArgs EXCEPT !.op = "from_bytes", !.bytes = b]
       /\ ret' = r
       /\ before' = id
       /\ id' = IF r.tag = "Ok" THEN r.val ELSE id

FromStr ==
  \E s \in StrInputs(id) :
    LET r == from_str(s)
    IN /\ call' = [NoArgs EXCEPT !.op = "from_str", !.str = s]
       /\ ret' = r
       /\ before' = id
       /\ id' = IF r.tag = "Ok" THEN r.val ELSE id

ToVec ==
  /\ call' = [NoArgs EXCEPT !.op = "to_vec"]
  /\ ret' = to_vec(id)
  /\ before' = id
  /\ id' = id

ToString ==
  /\ call' = [NoArgs EXCEPT !.op = "to_string"]
  /\ ret' = to_string(id)
  /\ before' = id
  /\ id' = id

MatchesKey ==
  \E key \in {0} \cup Keys :
    /\ call' = [NoArgs EXCEPT !.op = "matches_key", !.key = key]
    /\ ret' = Ok(matches_key(id, key))
    /\ before' = id
    /\ id' = id

Equals ==
  \E y \in Operands :
    /\ call' = [NoArgs EXCEPT !.op = "eq", !.rhs = y]
    /\ ret' = Ok(eq(id, y))
    /\ before' = id
    /\ id' = id

Cmp ==
  \E y \in Operands :
    /\ call' = [NoArgs EXCEPT !.op = "cmp", !.rhs = y]
    /\ ret' = Ok(cmp(id, y))
    /\ before' = id
    /\ id' = id

Encode ==
  /\ call' = [NoArgs EXCEPT !.op = "encode"]
  /\ ret' = encode(id)
  /\ before' = id
  /\ id' = id

Decode ==
  \E d \in WireInputs(id) :
    LET r == decode(d)
    IN /\ call' = [NoArgs EXCEPT !.op = "decode", !.items = d]
       /\ ret' = r
       /\ before' = id
       /\ id' = IF r.tag = "Ok" THEN r.val ELSE id

\* The value type: construction, the byte and text codecs, the predicates.
Next ==
  \/ Anonymous
  \/ Default
  \/ PublicKey
  \/ Subresource
  \/ WithSubresourceId
  \/ FromBytes
  \/ FromStr
  \/ ToVec
  \/ ToString
  \/ MatchesKey
  \/ Equals
  \/ Cmp

Spec == Init /\ [][Next]_vars

\* The wire codec, over the identities the constructors and from_bytes give.
WireNext ==
  \/ Anonymous
  \/ PublicKey
  \/ FromBytes
  \/ Encode
  \/ Decode

WireSpec == Init /\ [][WireNext]_vars

\* ---------------------------------------------------------------- claims

\* The variant of a layout, by its tag byte.
Variant(x) ==
  IF x[1] = 0 THEN "Anonymous"
  ELSE IF x[1] = 1 THEN "PublicKey"
  ELSE IF x[1] >= 128 /\ x[1] <= 255 THEN "Subresource"
  ELSE "None"

\* The hash portion of a layout: bytes 1..=28.
HashPortion(x) == [i \in 1..28 |-> x[i + 1]]

\* C1: matches_key(x, key) is true exactly when x is Anonymous and no key is
\* given, or x is PublicKey or Subresource, a key is given and bytes 1..=28 of x
\* equal the hash of the key.
C1_MatchesKeyByHashPortion ==
  call.op = "matches_key" =>
    ret.val = ( \/ Variant(id) = "Anonymous" /\ call.key = 0
                \/ /\ Variant(id) \in {"PublicKey", "Subresource"}
                   /\ call.key # 0
                   /\ HashPortion(id) = Digest(call.key) )

\* C2: from_str and from_bytes return Ok or an error for every input; neither
\* panics.
C2_ParsingNeverPanics ==
  call.op \in {"from_str", "from_bytes"} => ret.tag \in {"Ok", "Err"}

\* C3: the text of the Anonymous identity is exactly "oaa", and from_str("oaa")
\* succeeds with an anonymous identity.
C3_AnonymousTextIsOaa ==
  /\ (call.op = "to_string" /\ Variant(id) = "Anonymous") => ret = Ok(<<111, 97, 97>>)
  /\ (call.op = "from_str" /\ call.str = <<111, 97, 97>>) =>
       (ret.tag = "Ok" /\ Variant(ret.val) = "Anonymous")

\* C4: for every identity x the program can hold, from_str(to_string(x))
\* succeeds and returns an identity equal to x.
C4_TextRoundTrip ==
  /\ to_string(id).tag = "Ok"
  /\ from_str(to_string(id).val).tag = "Ok"
  /\ eq(from_str(to_string(id).val).val, id)

\* from_str has been called on the text of a subresource identity and returned
\* an identity equal to it.
C4_Witness ==
  /\ call.op = "from_str"
  /\ Variant(before) = "Subresource"
  /\ call.str = to_string(before).val
  /\ ret.tag = "Ok"
  /\ eq(ret.val, before)

\* C5: for every identity x the program can hold, to_vec(x) has length 1
\* (Anonymous), 29 (PublicKey) or 32 (Subresource), and from_bytes(to_vec(x))
\* succeeds and returns an identity equal to x.
C5_BytesRoundTrip ==
  /\ to_vec(id).tag = "Ok"
  /\ Len(to_vec(id).val) = (IF Variant(id) = "Anonymous" THEN 1
                            ELSE IF Variant(id) = "PublicKey" THEN 29 ELSE 32)
  /\ from_bytes(to_vec(id).val).tag = "Ok"
  /\ eq(from_bytes(to_vec(id).val).val, id)

\* from_bytes has been called on the 29 compact bytes of a public-key identity
\* and returned an identity equal to it.
C5_Witness ==
  /\ call.op = "from_bytes"
  /\ Variant(before) = "PublicKey"
  /\ call.bytes = to_vec(before).val
  /\ Len(call.bytes) = 29
  /\ ret.tag = "Ok"
  /\ eq(ret.val, before)

\* The byte strings from_bytes is to accept: tag 0 and length 1, tag 1 and
\* length 29, a tag in 0x80..=0xFF and length 32.
C6_Accepted(b) ==
  /\ Len(b) > 0
  /\ \/ b[1] = 0 /\ Len(b) = 1
     \/ b[1] = 1 /\ Len(b) = 29
     \/ b[1] >= 128 /\ b[1] <= 255 /\ Len(b) = 32

\* C6: from_bytes(b) succeeds exactly on the accepted byte strings, and the
\* identity it returns has b as its compact bytes (nothing truncated or padded);
\* it fails with InvalidIdentityKind carrying the tag when b is not empty and
\* its tag is in 0x02..=0x7F, and with InvalidIdentity in every other case.
C6_FromBytesAcceptance ==
  call.op = "from_bytes" =>
    /\ ret.tag = "Ok" <=> C6_Accepted(call.bytes)
    /\ ret.tag = "Ok" => to_vec(ret.val) = Ok(call.bytes)
    /\ ret.tag # "Ok" =>
         ret = IF Len(call.bytes) > 0 /\ call.bytes[1] >= 2 /\ call.bytes[1] <= 127
               THEN InvalidIdentityKind(call.bytes[1])
               ELSE InvalidIdentity

\* from_bytes has been called on 29 bytes with the tag 0x02 and has failed with
\* InvalidIdentityKind(2).
C6_Witness ==
  /\ call.op = "from_bytes"
  /\ Len(call.bytes) = 29
  /\ call.bytes[1] = 2
  /\ ret = InvalidIdentityKind(2)

\* C7, as claimed: for one key and any two distinct u32 ids, the two subresource
\* identities differ, and both differ from the public-key identity of the key.
C7_DistinctIdsAnyU32 ==
  call.op = "subresource" =>
    /\ ~eq(id, Identity_public_key(call.key))
    /\ \A i2 \in SubIds :
         i2 # call.sid => ~eq(id, Identity_subresource(call.key, i2))

\* The low 31 bits of a u32.
Low31(i) == <<i[1] % 128, i[2], i[3], i[4]>>

\* C7, amended: for one key and any two ids that differ in their low 31 bits,
\* the two subresource identities differ, and every subresource identity of a
\* key differs from its public-key identity.
C7_DistinctIdsLow31 ==
  call.op = "subresource" =>
    /\ ~eq(id, Identity_public_key(call.key))
    /\ \A i2 \in SubIds :
         /\ ~eq(Identity_subresource(call.key, i2), Identity_public_key(call.key))
         /\ Low31(i2) # Low31(call.sid) => ~eq(id, Identity_subresource(call.key, i2))
         /\ Low31(i2) = Low31(call.sid) => eq(id, Identity_subresource(call.key, i2))

\* subresource has been called with the id 2^24, which differs from the id 0 in
\* the tag byte alone.
C7_Witness ==
  /\ call.op = "subresource"
  /\ call.sid = <<1, 0, 0, 0>>
  /\ id[1] = 129
  /\ ~eq(id, Identity_subresource(call.key, <<0, 0, 0, 0>>))

\* C8: two identities are equal exactly when they are of one variant and both
\* are Anonymous, or both PublicKey with equal hashes, or both Subresource with
\* equal tag bytes and equal 31 trailing bytes.
C8_EqualityByVariant ==
  call.op = "eq" =>
    ret.val = ( /\ Variant(id) = Variant(call.rhs)
                /\ \/ Variant(id) = "Anonymous"
                   \/ Variant(id) = "PublicKey" /\ HashPortion(id) = HashPortion(call.rhs)
                   \/ /\ Variant(id) = "Subresource"
                      /\ id[1] = call.rhs[1]
                      /\ \A i \in 2..32 : id[i] = call.rhs[i] )

\* Two subresource identities with the same 31 trailing bytes and different tag
\* bytes have been compared, and found different.
C8_Witness ==
  /\ call.op = "eq"
  /\ Variant(id) = "Subresource"
  /\ Variant(call.rhs) = "Subresource"
  /\ id[1] # call.rhs[1]
  /\ \A i \in 2..32 : id[i] = call.rhs[i]
  /\ ret.val = FALSE

\* C9: with_subresource_id returns Anonymous on Anonymous, and on an identity
\* with hash h the subresource identity of h and the new id, whatever id the
\* source had: applying another id j to the result gives what applying j to the
\* source gives; with the new id 2 the result is the decoding of the 32 bytes
\* 0x80, h, 00 00 02.
C9_WithSubresourceId ==
  call.op = "with_subresource_id" =>
    /\ ret = Ok(id)
    /\ Variant(before) = "Anonymous" => Variant(id) = "Anonymous"
    /\ Variant(before) # "Anonymous" =>
         /\ eq(id, subresource(HashPortion(before), call.sid))
         /\ \A j \in SubIds :
              /\ eq(with_subresource_id(id, j), with_subresource_id(before, j))
              /\ eq(with_subresource_id(id, j), subresource(HashPortion(before), j))
         /\ call.sid = <<0, 0, 0, 2>> =>
              /\ from_bytes(<<128>> \o HashPortion(before) \o <<0, 0, 2>>).tag = "Ok"
              /\ eq(id, from_bytes(<<128>> \o HashPortion(before) \o <<0, 0, 2>>).val)

\* The id 2 has been applied to a subresource identity of id 1.
C9_Witness ==
  /\ call.op = "with_subresource_id"
  /\ subresource_id(before) = << <<0, 0, 0, 1>> >>
  /\ call.sid = <<0, 0, 0, 2>>
  /\ id = <<128>> \o HashPortion(before) \o <<0, 0, 2>>

\* The wire input d has exactly n leading tag markers.
C10_Leading(d, n) ==
  /\ \A i \in 1..n : d[i].type = "Tag"
  /\ n < Len(d) => d[n + 1].type # "Tag"

\* Tag 10000 is among the first n items of d.
C10_Tagged(d, n) == \E i \in 1..n : d[i].num = 10000

\* C10: after the leading tag markers, decode accepts the next item exactly
\* when it is a text string from_str accepts, or a byte string from_bytes
\* accepts and tag 10000 was among the markers, and returns that identity; an
\* item that is no text string, with no tag 10000 before it, fails with the
\* tagging-required error; and decode(encode(x)) is equal to x for every
\* identity x the program can hold.
C10_WireDecode ==
  /\ call.op = "decode" =>
       \A n \in 0..Len(call.items) :
         C10_Leading(call.items, n) =>
           /\ ret.tag = "Ok" <=>
                /\ n < Len(call.items)
                /\ \/ /\ call.items[n + 1].type = "String"
                      /\ from_str(call.items[n + 1].str).tag = "Ok"
                   \/ /\ call.items[n + 1].type = "Bytes"
                      /\ C10_Tagged(call.items, n)
                      /\ from_bytes(call.items[n + 1].bytes).tag = "Ok"
           /\ (ret.tag = "Ok" /\ call.items[n + 1].type = "String") =>
                ret = from_str(call.items[n + 1].str)
           /\ (ret.tag = "Ok" /\ call.items[n + 1].type = "Bytes") =>
                ret = from_bytes(call.items[n + 1].bytes)
           /\ ( /\ n < Len(call.items)
                /\ call.items[n + 1].type # "String"
                /\ ~C10_Tagged(call.items, n) ) =>
                ret = Err("identities need to be tagged", 0)
  /\ encode(id).tag = "Ok"
  /\ decode(encode(id).val).tag = "Ok"
  /\ eq(decode(encode(id).val).val, id)

\* decode has been called on the compact bytes of a public-key identity behind
\* the tag 10000 and then another tag, and returned an identity equal to it.
C10_Witness ==
  /\ call.op = "decode"
  /\ Variant(before) = "PublicKey"
  /\ call.items = <<TagItem(10000), TagItem(24), BytesItem(to_vec(before).val)>>
  /\ ret.tag = "Ok"
  /\ eq(ret.val, before)

\* The identities C11 is about: those a sequence of anonymous, default,
\* from_bytes, from_str, public_key, subresource and with_subresource_id has
\* produced.  They are the values of id, since no other action of Next changes
\* it, and the operands of eq and cmp, which are results of the constructors.

\* C11: every identity the public operations produce has a tag byte in
\* {0x00, 0x01} or 0x80..=0xFF, has bytes 1..31 all zero when Anonymous and
\* bytes 29..31 all zero when PublicKey; so exactly one of is_anonymous,
\* is_public_key and is_subresource holds of it, to_vec returns on it without
\* reaching its unreachable!() arm, and the derived ordering reports Equal
\* against another such identity exactly when the custom equality reports equal.
C11_LayoutInvariant ==
  /\ Variant(id) \in {"Anonymous", "PublicKey", "Subresource"}
  /\ Variant(id) = "Anonymous" =>
       \A i \in 2..MAX_IDENTITY_BYTE_LEN : id[i] = 0
  /\ Variant(id) = "PublicKey" =>
       \A i \in (SHA_OUTPUT_SIZE + 2)..MAX_IDENTITY_BYTE_LEN : id[i] = 0
  /\ Cardinality({p \in {"a", "p", "s"} :
                    \/ p = "a" /\ is_anonymous(id)
                    \/ p = "p" /\ is_public_key(id)
                    \/ p = "s" /\ is_subresource(id)}) = 1
  /\ to_vec(id).tag = "Ok"
  /\ call.op = "to_vec" => ret.tag = "Ok"
  /\ \A y \in Operands : (cmp(id, y) = "Equal") <=> eq(id, y)
  /\ cmp(id, before) = "Equal" <=> eq(id, before)
  /\ call.op = "cmp" => ((ret.val = "Equal") <=> eq(id, call.rhs))

\* The ordering has been asked of a public-key identity, whose three padding
\* bytes are zero, and an identity equal to it, and has reported Equal.
C11_Witness ==
  /\ call.op = "cmp"
  /\ Variant(id) = "PublicKey"
  /\ \A i \in (SHA_OUTPUT_SIZE + 2)..MAX_IDENTITY_BYTE_LEN : id[i] = 0
  /\ eq(id, call.rhs)
  /\ ret.val = "Equal"

====
